---- MODULE Spec2Model ----
(***************************************************************************)
(* Zombie tower defense: the simulation core of zombie_tower_defense.py    *)
(* (class Game and its entities).                                          *)
(*                                                                         *)
(* Numbers.  The program computes with floats; the model uses fixed point: *)
(*   - time in milliseconds (dt, spawn_timer, slow_timer, cooldown);       *)
(*   - positions in 1/SubPixel of a pixel;                                 *)
(*   - slow_factor and Projectile.slow in percent;                         *)
(*   - fire rate in shots per 1000 seconds.                                *)
(* With whole-second dt every zombie move is exact in these units.         *)
(* Distances are compared by their squares, which is exact.                *)
(*                                                                         *)
(* Objects.  A Python list holds references.  Zombie objects live in the   *)
(* heap zobj (identity -> fields); self.zombies is the sequence zombies of *)
(* identities and Projectile.target is an identity, so that a projectile   *)
(* keeps reading and writing a zombie that left self.zombies, as in the    *)
(* program.  Objects nothing refers to any more are dropped (collected).   *)
(*                                                                         *)
(* The file contains an unresolved merge conflict in handle_game_click     *)
(* (lines 557-564): side HEAD checks the coins before placing, side main   *)
(* does not.  The variable variant is the side the build took.             *)
(***************************************************************************)
EXTENDS Integers, Sequences, FiniteSets, TLC

VARIABLES
    variant,          \* "HEAD" or "main": resolution of the merge conflict
    state,            \* Game.state: "menu", "settings", "game", "gameover"
    running,          \* Game.running
    crashed,          \* an exception left the main loop (process ended)
    high_score,       \* Game.high_score
    hs_file,          \* content of highscore.json, see Files
    towers,           \* Game.towers: sequence of Tower records
    projectiles,      \* Game.projectiles: sequence of Projectile records
    zombies,          \* Game.zombies: sequence of zombie identities
    zobj,             \* heap: zombie identity -> Zombie record
    selected_tower,   \* Game.selected_tower: None (= NoSel) or an index from 0
    coins, lives, score, wave, wave_in_progress,
    spawn_timer,      \* Game.spawn_timer (ms)
    spawn_queue,      \* Game.spawn_queue after random.shuffle: category -> entries left
    pause,            \* Game.pause
    nextId,           \* next fresh zombie identity
    ticks,            \* history: update_game calls so far
    plan,             \* the steps of the opening that are still to be taken
    exits,            \* history: zombie identity -> how it left self.zombies
    log               \* history: what the last update_game did

vars == <<variant, state, running, crashed, high_score, hs_file, towers, projectiles,
          zombies, zobj, selected_tower, coins, lives, score, wave, wave_in_progress,
          spawn_timer, spawn_queue, pause, nextId, ticks, plan, exits, log>>

----------------------------------------------------------------------------
(* Bounds of the model *)

\* a run is explored for this many frames of the game
MaxTicks == 7
\* at most this many towers are placed
MaxTowers == 2
\* after an opening a run is explored for this many frames of the game
MaxAfter == 4

----------------------------------------------------------------------------
(* Config *)

WIDTH == 1100
HEIGHT == 720
GRID_SIZE == 50
UI_HEIGHT == 100
\* PLAY_AREA = pygame.Rect(0, 0, WIDTH, HEIGHT - UI_HEIGHT)
PLAY_AREA == [left |-> 0, top |-> 0, right |-> WIDTH, bottom |-> HEIGHT - UI_HEIGHT]

\* resolution of a position: units per pixel
SubPixel == 4
\* selected_tower = None
NoSel == -1

TOWER_TYPES ==
    << [name |-> "Rifle",  cost |-> 80,  range |-> 160, fire_rate |-> 1500, damage |-> 15,
        splash_radius |-> 0,  slow |-> 0,  slow_duration |-> 0],
       [name |-> "Sniper", cost |-> 140, range |-> 260, fire_rate |-> 700,  damage |-> 45,
        splash_radius |-> 0,  slow |-> 0,  slow_duration |-> 0],
       [name |-> "Splash", cost |-> 160, range |-> 170, fire_rate |-> 900,  damage |-> 30,
        splash_radius |-> 60, slow |-> 0,  slow_duration |-> 0],
       [name |-> "Frost",  cost |-> 120, range |-> 150, fire_rate |-> 1200, damage |-> 12,
        splash_radius |-> 0,  slow |-> 45, slow_duration |-> 1800] >>

ZombieKinds == {"walker", "runner", "brute", "boss"}

ZOMBIE_TYPES ==
    [k \in ZombieKinds |->
        CASE k = "walker" -> [speed |-> 45, health |-> 90,  reward |-> 8]
          [] k = "runner" -> [speed |-> 80, health |-> 65,  reward |-> 10]
          [] k = "brute"  -> [speed |-> 35, health |-> 200, reward |-> 18]
          [] k = "boss"   -> [speed |-> 30, health |-> 800, reward |-> 80]]

\* spawn delay (ms) that make_wave pairs with each category
SpawnDelay ==
    [k \in ZombieKinds |->
        CASE k = "walker" -> 800
          [] k = "runner" -> 700
          [] k = "brute"  -> 1400
          [] k = "boss"   -> 2200]

\* Game.path, in pixels
PathPx ==
    << <<0, 140>>, <<200, 140>>, <<200, 360>>, <<420, 360>>,
       <<420, 180>>, <<700, 180>>, <<700, 500>>, <<980, 500>>,
       <<980, 260>>, <<WIDTH, 260>> >>

\* Game.path in position units
path == [i \in 1..Len(PathPx) |-> <<PathPx[i][1] * SubPixel, PathPx[i][2] * SubPixel>>]

----------------------------------------------------------------------------
(* Helpers *)

Max(a, b) == IF a >= b THEN a ELSE b
Min(a, b) == IF a <= b THEN a ELSE b

clamp(value, low, high) == Max(low, Min(high, value))

\* squared length of the vector from p to q
Dist2(p, q) == (p[1] - q[1]) * (p[1] - q[1]) + (p[2] - q[2]) * (p[2] - q[2])

RECURSIVE SqrtIter(_, _, _)
SqrtIter(n, lo, hi) ==
    IF lo >= hi THEN lo
    ELSE LET mid == (lo + hi + 1) \div 2
         IN  IF mid * mid <= n THEN SqrtIter(n, mid, hi) ELSE SqrtIter(n, lo, mid - 1)

\* Vector2.length(), rounded down to a whole position unit
Length(n2) == SqrtIter(n2, 0, 46340)

\* a tower position (pixels) in position units
ToUnits(p) == <<p[1] * SubPixel, p[2] * SubPixel>>

\* list.remove(x) that leaves the list as it is
RemoveFirst_Keep(s, x) == s

\* list.remove(x): drops the first occurrence
RECURSIVE RemoveFirst(_, _)
RemoveFirst(s, x) ==
    IF s = <<>> THEN <<>>
    ELSE IF Head(s) = x THEN Tail(s)
    ELSE <<Head(s)>> \o RemoveFirst(Tail(s), x)

InSeq(s, x) == \E i \in 1..Len(s) : s[i] = x

----------------------------------------------------------------------------
(* Core entities *)

\* Zombie.__init__ with the path p
Zombie(p, zombie_type) ==
    [path |-> p,
     type |-> zombie_type,
     max_health |-> ZOMBIE_TYPES[zombie_type].health,
     health |-> ZOMBIE_TYPES[zombie_type].health,
     speed |-> ZOMBIE_TYPES[zombie_type].speed,
     reward |-> ZOMBIE_TYPES[zombie_type].reward,
     path_index |-> 0,
     position |-> p[1],
     slow_timer |-> 0,
     slow_factor |-> 100]

\* update_game, line 384: Zombie(self.path, zombie_type)
NewZombie(zombie_type) == Zombie(path, zombie_type)

\* direction.normalize() * move, one coordinate: d is that coordinate of the
\* direction vector, dist its length
Step(d, move, dist) == (d * move) \div dist

\* the slow bookkeeping at the head of Zombie.update
SlowTick(z, dt) ==
    IF z.slow_timer > 0
    THEN [z EXCEPT !.slow_timer = z.slow_timer - dt]
    ELSE [z EXCEPT !.slow_factor = 100]

\* position + direction.normalize() * move for the direction from position
\* to target, of length dist
Towards(position, target, move, dist) ==
    << position[1] + Step(target[1] - position[1], move, dist),
       position[2] + Step(target[2] - position[2], move, dist) >>

\* Zombie.update that leaves the zombie as it is on a segment of length zero
Walk_StuckOnZero(z, target, move, d2) ==
    IF d2 = 0
    THEN [z |-> z, reached_end |-> FALSE]
    ELSE IF move * move >= d2
    THEN [z |-> [z EXCEPT !.position = target, !.path_index = z.path_index + 1],
          reached_end |-> FALSE]
    ELSE [z |-> [z EXCEPT !.position = Towards(z.position, target, move, Length(d2))],
          reached_end |-> FALSE]

\* Zombie.update, lines 145-158: z moves by move towards the waypoint target,
\* which is at squared distance d2
Walk(z, target, move, d2) ==
    IF d2 = 0
    THEN [z |-> [z EXCEPT !.path_index = z.path_index + 1], reached_end |-> FALSE]
    ELSE IF move * move >= d2
    THEN [z |-> [z EXCEPT !.position = target, !.path_index = z.path_index + 1],
          reached_end |-> FALSE]
    ELSE [z |-> [z EXCEPT !.position = Towards(z.position, target, move, Length(d2))],
          reached_end |-> FALSE]

\* Zombie.update, lines 143-158
Advance(z, dt) ==
    IF z.path_index >= Len(z.path) - 1
    THEN [z |-> z, reached_end |-> TRUE]
    ELSE Walk(z, z.path[z.path_index + 2],
              (z.speed * z.slow_factor * dt * SubPixel) \div 100000,
              Dist2(z.path[z.path_index + 2], z.position))

\* Zombie.update: the zombie after the call and the value returned
ZombieUpdate(z0, dt) == Advance(SlowTick(z0, dt), dt)

\* Projectile.__init__ as Tower.update calls it
NewProjectile(position, target, damage, tt) ==
    [position |-> position, target |-> target, speed |-> 320, damage |-> damage,
     splash_radius |-> tt.splash_radius, slow |-> tt.slow,
     slow_duration |-> tt.slow_duration, alive |-> TRUE]

\* Projectile.update, lines 190-201: p moves by move towards target, which is
\* at squared distance d2
Fly(p, target, move, d2) ==
    IF d2 = 0
    THEN [p EXCEPT !.alive = FALSE]
    ELSE IF move * move >= d2
    THEN [p EXCEPT !.position = target, !.alive = FALSE]
    ELSE [p EXCEPT !.position = Towards(p.position, target, move, Length(d2))]

\* Projectile.update; tz is the zombie object the projectile refers to
ProjectileUpdate(p, tz, dt) ==
    IF tz.health <= 0
    THEN [p EXCEPT !.alive = FALSE]
    ELSE Fly(p, tz.position, (p.speed * dt * SubPixel) \div 1000,
             Dist2(tz.position, p.position))

\* Tower.__init__
NewTower(tower_type, position) ==
    [tower_type |-> tower_type, position |-> position, cooldown |-> 0, level |-> 1]

\* Tower.upgrade_cost: int(cost * (0.75 + 0.5 * level))
upgrade_cost(t) == (TOWER_TYPES[t.tower_type + 1].cost * (75 + 50 * t.level)) \div 100

\* an upgrade that adds two levels
upgrade_TwoLevels(t) == [t EXCEPT !.level = t.level + 2]

\* Tower.upgrade
upgrade(t) == [t EXCEPT !.level = t.level + 1]

\* Tower.stats that ignores the level
stats_Level1(t) ==
    LET tt == TOWER_TYPES[t.tower_type + 1]
    IN  [dmg |-> tt.damage, rate |-> tt.fire_rate, rng |-> tt.range]

\* Tower.stats: damage, fire rate (per 1000 s), range (pixels)
stats(t) ==
    LET tt == TOWER_TYPES[t.tower_type + 1]
    IN  [dmg  |-> tt.damage + (t.level - 1) * 6,
         rate |-> tt.fire_rate + (t.level - 1) * 200,
         rng  |-> tt.range + (t.level - 1) * 10]

\* the cooldown Tower.update sets on firing: 1.0 / rate, in ms
FireInterval(rate) == 1000000 \div rate

\* the decrement at the head of Tower.update
CooldownTick(cooldown, dt) == Max(0, cooldown - dt)

\* the test of the target loop with dist <= best_dist: the last of several
\* zombies at the same distance wins
Closer_OrEqual(d2, rng, best2) ==
    /\ d2 <= (rng * SubPixel) * (rng * SubPixel)
    /\ (best2 < 0 \/ d2 <= best2)

\* the test of the target loop of Tower.update: zombie at squared distance d2
\* replaces the best so far (best2 < 0: none so far)
Closer(d2, rng, best2) ==
    /\ d2 <= (rng * SubPixel) * (rng * SubPixel)
    /\ (best2 < 0 \/ d2 < best2)

\* the target loop of Tower.update over zs[i..]: identity of the target, 0 = None
RECURSIVE TargetLoop(_, _, _, _, _, _, _)
TargetLoop(tpos, rng, zs, heap, i, best, best2) ==
    IF i > Len(zs) THEN best
    ELSE LET d2 == Dist2(heap[zs[i]].position, tpos)
         IN  IF Closer(d2, rng, best2)
             THEN TargetLoop(tpos, rng, zs, heap, i + 1, zs[i], d2)
             ELSE TargetLoop(tpos, rng, zs, heap, i + 1, best, best2)

\* a tower that fires whenever it has a target
ShouldFire_IgnoreCooldown(target, cooldown) == target # 0

\* the condition under which Tower.update fires
ShouldFire(target, cooldown) == target # 0 /\ cooldown <= 0

\* Tower.update, lines 238-251, for the cooldown cd after the decrement, the
\* stats st and the target: the tower after the call, the projectile
\* appended (or none), and for the history the target, the cooldown at the
\* test and whether the tower fired
Fire(t, cd, st, target) ==
    IF ShouldFire(target, cd)
    THEN [tower |-> [t EXCEPT !.cooldown = FireInterval(st.rate)],
          shots |-> << NewProjectile(ToUnits(t.position), target, st.dmg,
                                     TOWER_TYPES[t.tower_type + 1]) >>,
          note  |-> [target |-> target, fired |-> TRUE, cooldown |-> cd, level |-> t.level]]
    ELSE [tower |-> [t EXCEPT !.cooldown = cd],
          shots |-> << >>,
          note  |-> [target |-> target, fired |-> FALSE, cooldown |-> cd, level |-> t.level]]

\* Tower.update, lines 231-251
Aim(t, cd, st, zs, heap) ==
    Fire(t, cd, st, TargetLoop(ToUnits(t.position), st.rng, zs, heap, 1, 0, -1))

\* Tower.update
TowerUpdate(t, dt, zs, heap) == Aim(t, CooldownTick(t.cooldown, dt), stats(t), zs, heap)

----------------------------------------------------------------------------
(* Game: the session record                                                *)
(* The methods of Game are operators on a record g of its fields (the      *)
(* variables of this module, collected by Cur below).                      *)

\* contents of highscore.json: no file; a file that open() refuses with
\* OSError; text that is not JSON; a JSON array; a JSON number; an object
\* without the key; {"high_score": n}; an object whose high_score is a
\* non-numeric string, null, or a list
NoFile == [kind |-> "missing", value |-> 0]
Saved(n) == [kind |-> "saved", value |-> n]
Corrupt ==
    { [kind |-> k, value |-> 0] :
          k \in {"unreadable", "text", "array", "number", "no_key",
                 "string_value", "null_value", "list_value"} }

\* history of the last call of load_high_score or save_high_score made on
\* its own: the function (op), the score passed, the file it found, the
\* value returned, whether it raised, and for a load that follows a save the
\* score and the file of that save
NoIO ==
    [op |-> "none", arg |-> 0, file |-> NoFile, value |-> 0, raised |-> FALSE,
     saved |-> << >>]

\* history of the input event of a frame: the handler called (op: "none",
\* "click", "key"), the mouse position or the key, the coins, the selection
\* and the towers before and after the handler, whether the handler changed
\* anything else and whether it raised an exception
NoEvent ==
    [op |-> "none", pos |-> <<0, 0>>, key |-> "",
     coins |-> 0, selected |-> NoSel, towers |-> << >>,
     coins_after |-> 0, selected_after |-> NoSel, towers_after |-> << >>,
     other |-> FALSE, raised |-> FALSE]

\* history of one step of the main loop: the state of the session before
\* it, the input event of the frame and its update_game call
NullLog ==
    [event |-> NoEvent,        \* the input event of the frame
     came_from |-> "init",     \* the state of the session before the step
     io |-> NoIO,              \* the persistence function called on its own
     ticked |-> FALSE,         \* update_game ran past the pause test
     dt |-> 0,                 \*   with this frame time (ms)
     advanced_dead |-> FALSE,  \* Zombie.update was called on a zombie with health <= 0
     stale_hit |-> FALSE,      \* a projectile whose target was gone or dead changed a health
     completed |-> FALSE,      \* the wave was marked complete
     completed_queue |-> 0,    \*   entries in spawn_queue at that moment
     completed_active |-> 0,   \*   zombies in self.zombies at that moment
     escapes |-> 0,            \* zombies that reached the end
     killed |-> << >>,         \* zombies remove_dead_zombies took out of self.zombies
     rewarded |-> 0,           \* coins added by remove_dead_zombies
     scored |-> 0,             \* score added by remove_dead_zombies
     in_flight |-> 0,          \* projectiles in self.projectiles before the towers fire
     order |-> << >>,          \* the parts of update_game begun, in the order they began
     splashes |-> << >>,       \* per splash projectile that took effect: the projectile,
                               \*   the zombie objects before and after
     towers |-> << >>]         \* per tower: target chosen, fired or not, cooldown at the test

\* history of a zombie: how often it left self.zombies as killed and as
\* escaped, how often its reward was credited, its health when it left;
\* how often a slow was applied to it, the slow of the projectile that did
\* it last and the slow_factor it replaced, the time (ms) from that moment to
\* the last Zombie.update (-1: never slowed), and the slow_factor that
\* Zombie.update moved it with
NoExit(kind) ==
    [type |-> kind, killed |-> 0, escaped |-> 0, credited |-> 0, health |-> 0,
     slow_hits |-> 0, slow_cfg |-> 0, slow_before |-> 100, slow_age |-> -1,
     moved_factor |-> 100]

\* the state of the session: self.state, and within "game" self.pause
Phase(g) ==
    IF g.state = "gameover" THEN "lost"
    ELSE IF g.state = "game" THEN (IF g.pause THEN "paused" ELSE "playing")
    ELSE g.state

\* history of a step of a menu loop taken from g
Arrived(g) == [NullLog EXCEPT !.came_from = Phase(g)]

EmptyQueue == [k \in ZombieKinds |-> 0]

QueueLen(q) == q["walker"] + q["runner"] + q["brute"] + q["boss"]

\* reset_game that leaves self.selected_tower as it is
reset_game_KeepSelection(g) ==
    [g EXCEPT !.towers = << >>, !.projectiles = << >>, !.zombies = << >>,
              !.zobj = << >>,
              !.coins = 180, !.lives = 20, !.score = 0, !.wave = 0,
              !.wave_in_progress = FALSE, !.spawn_timer = 0,
              !.spawn_queue = EmptyQueue, !.pause = FALSE,
              !.nextId = 1, !.exits = << >>]

\* reset_game that leaves self.pause as it is
reset_game_KeepPause(g) ==
    [g EXCEPT !.towers = << >>, !.projectiles = << >>, !.zombies = << >>,
              !.zobj = << >>, !.selected_tower = NoSel,
              !.coins = 180, !.lives = 20, !.score = 0, !.wave = 0,
              !.wave_in_progress = FALSE, !.spawn_timer = 0,
              !.spawn_queue = EmptyQueue,
              !.nextId = 1, !.exits = << >>]

\* Game.reset_game
reset_game(g) ==
    [g EXCEPT !.towers = << >>, !.projectiles = << >>, !.zombies = << >>,
              !.zobj = << >>, !.selected_tower = NoSel,
              !.coins = 180, !.lives = 20, !.score = 0, !.wave = 0,
              !.wave_in_progress = FALSE, !.spawn_timer = 0,
              !.spawn_queue = EmptyQueue, !.pause = FALSE,
              !.nextId = 1, !.exits = << >>]

\* make_wave without the boss
make_wave_NoBoss(wave_number) ==
    [k \in ZombieKinds |->
        CASE k = "walker" -> 6 + wave_number * 2
          [] k = "runner" -> IF wave_number >= 2 THEN 2 + wave_number \div 2 ELSE 0
          [] k = "brute"  -> IF wave_number >= 4 THEN 1 + wave_number \div 3 ELSE 0
          [] k = "boss"   -> 0]

\* Game.make_wave.  random.shuffle makes every order of the entries possible;
\* the model keeps the entries as counts and lets each pop take any category
\* that is left, which yields the same spawn sequences.
make_wave(wave_number) ==
    [k \in ZombieKinds |->
        CASE k = "walker" -> 6 + wave_number * 2
          [] k = "runner" -> IF wave_number >= 2 THEN 2 + wave_number \div 2 ELSE 0
          [] k = "brute"  -> IF wave_number >= 4 THEN 1 + wave_number \div 3 ELSE 0
          [] k = "boss"   -> IF wave_number % 5 = 0 THEN 1 ELSE 0]

\* Game.start_wave
start_wave(g) ==
    [g EXCEPT !.wave = g.wave + 1, !.wave_in_progress = TRUE,
              !.spawn_queue = make_wave(g.wave + 1), !.spawn_timer = 1000]

\* a spawn that does not wait for the countdown
ShouldSpawn_NoCountdown(timer, queue) == QueueLen(queue) > 0

\* update_game, line 382: a zombie is spawned now
ShouldSpawn(timer, queue) == timer <= 0 /\ QueueLen(queue) > 0

\* a wave that is over as soon as its queue is empty
WaveComplete_QueueOnly(queue, zs) == QueueLen(queue) = 0

\* update_game, line 386: the wave is over
WaveComplete(queue, zs) == QueueLen(queue) = 0 /\ zs = << >>

\* a wave block that restarts the timer and spawns nothing
Spawn_Requeue(g, t1, pick) ==
    IF ShouldSpawn(t1, g.spawn_queue)
    THEN [g EXCEPT !.spawn_timer = SpawnDelay[pick]]
    ELSE [g EXCEPT !.spawn_timer = t1]

\* update_game, lines 381-385, with the timer t1 after the decrement; pick is
\* the category the pop yields
Spawn(g, t1, pick) ==
    IF ShouldSpawn(t1, g.spawn_queue)
    THEN [g EXCEPT !.spawn_queue[pick] = @ - 1,
                   !.zombies = Append(@, g.nextId),
                   !.zobj = [i \in DOMAIN g.zobj \cup {g.nextId} |->
                                IF i = g.nextId THEN NewZombie(pick) ELSE g.zobj[i]],
                   !.exits = Append(@, NoExit(pick)),
                   !.nextId = g.nextId + 1,
                   !.spawn_timer = SpawnDelay[pick]]
    ELSE [g EXCEPT !.spawn_timer = t1]

\* the end of a wave that leaves the wave in progress
EndWave_Again(g) ==
    IF WaveComplete(g.spawn_queue, g.zombies)
    THEN [g EXCEPT !.coins = g.coins + 30 + g.wave * 5,
                   !.log.completed = TRUE,
                   !.log.completed_queue = QueueLen(g.spawn_queue),
                   !.log.completed_active = Len(g.zombies)]
    ELSE g

\* update_game, lines 386-388
EndWave(g) ==
    IF WaveComplete(g.spawn_queue, g.zombies)
    THEN [g EXCEPT !.wave_in_progress = FALSE,
                   !.coins = g.coins + 30 + g.wave * 5,
                   !.log.completed = TRUE,
                   !.log.completed_queue = QueueLen(g.spawn_queue),
                   !.log.completed_active = Len(g.zombies)]
    ELSE g

\* update_game, lines 380-388
WavePhase(g, dt, pick) ==
    IF ~g.wave_in_progress THEN g
    ELSE EndWave(Spawn(g, g.spawn_timer - dt, pick))

\* save_high_score that writes nothing
save_high_score_Skip(g, n) == g

\* save_high_score: json.dump({"high_score": score}) into the file; OSError
\* from open() is swallowed and the file stays as it is
save_high_score(g, n) ==
    IF g.hs_file.kind = "unreadable" THEN g ELSE [g EXCEPT !.hs_file = Saved(n)]

\* a loss that stores the score of the session as the high score
LoseIfNoLives_Overwrite(g) ==
    IF g.lives <= 0
    THEN save_high_score([g EXCEPT !.state = "gameover", !.high_score = g.score], g.score)
    ELSE g

\* update_game, lines 395-398
LoseIfNoLives(g) ==
    IF g.lives <= 0
    THEN save_high_score([g EXCEPT !.state = "gameover",
                                   !.high_score = Max(g.high_score, g.score)],
                         Max(g.high_score, g.score))
    ELSE g

\* update_game, lines 393-398: zombie id reached the end
Escape(g, id) ==
    LoseIfNoLives([g EXCEPT !.zombies = RemoveFirst(g.zombies, id),
                            !.lives = g.lives - 1,
                            !.exits[id].escaped = @ + 1,
                            !.exits[id].health = g.zobj[id].health,
                            !.log.escapes = @ + 1,
                            !.log.order = Append(@, "check")])

\* update_game, line 391: zombie id after its update with dt is z
Moved(g, id, z, dt) ==
    [g EXCEPT !.zobj[id] = z,
              !.exits[id].moved_factor = z.slow_factor,
              !.exits[id].slow_age = IF @ < 0 THEN @ ELSE @ + dt,
              !.log.advanced_dead = @ \/ g.zobj[id].health <= 0]

\* update_game, lines 391-398: r is what Zombie.update gave for zombie id
ZombieStep(g, id, r, dt) ==
    IF r.reached_end THEN Escape(Moved(g, id, r.z, dt), id) ELSE Moved(g, id, r.z, dt)

\* update_game, lines 390-398: the loop over list(self.zombies) from index i
RECURSIVE ZombieLoop(_, _, _, _)
ZombieLoop(g, snap, i, dt) ==
    IF i > Len(snap) THEN g
    ELSE ZombieLoop(ZombieStep(g, snap[i], ZombieUpdate(g.zobj[snap[i]], dt), dt),
                    snap, i + 1, dt)

\* handle_projectiles, lines 358-360: splash over self.zombies from index i
RECURSIVE SplashLoop(_, _, _, _)
SplashLoop(heap, zs, i, p) ==
    IF i > Len(zs) THEN heap
    ELSE
      LET r == p.splash_radius * SubPixel
      IN  IF Dist2(heap[zs[i]].position, p.position) <= r * r
          THEN SplashLoop([heap EXCEPT ![zs[i]].health = @ - p.damage], zs, i + 1, p)
          ELSE SplashLoop(heap, zs, i + 1, p)

\* handle_projectiles, line 356: the projectile that ended takes effect
TakesEffect(p, tz) == tz.health > 0

\* a projectile that damages its target only
Damage_PrimaryOnly(g, p) == [g.zobj EXCEPT ![p.target].health = @ - p.damage]

\* handle_projectiles, lines 356-361: the heap after the damage of p
Damage(g, p) ==
    IF p.splash_radius > 0
    THEN SplashLoop(g.zobj, g.zombies, 1, p)
    ELSE [g.zobj EXCEPT ![p.target].health = @ - p.damage]

\* handle_projectiles, lines 362-364: the heap after the slow of p
Slow(heap, p) ==
    IF p.slow > 0 /\ heap[p.target].health > 0
    THEN [heap EXCEPT ![p.target].slow_factor = 100 - p.slow,
                      ![p.target].slow_timer = p.slow_duration]
    ELSE heap

\* handle_projectiles, lines 355-365: projectile p (no longer alive) resolves
Resolve(g, p) ==
    IF TakesEffect(p, g.zobj[p.target])
    THEN [g EXCEPT !.zobj = Slow(Damage(g, p), p)]
    ELSE g

\* history: projectile p, resolving in g, got to lines 364-365 and left the
\* session as g1
SlowApplied(g, p, g1) ==
    TakesEffect(p, g.zobj[p.target]) /\ p.slow > 0 /\ g1.zobj[p.target].health > 0

\* history: identity, position and health of the zombie objects id..last of
\* the heap, and whether self.zombies holds them
RECURSIVE Snapshot(_, _, _, _)
Snapshot(heap, zs, id, last) ==
    IF id > last THEN << >>
    ELSE IF id \in DOMAIN heap
    THEN << [id |-> id, active |-> InSeq(zs, id), position |-> heap[id].position,
             health |-> heap[id].health] >> \o Snapshot(heap, zs, id + 1, last)
    ELSE Snapshot(heap, zs, id + 1, last)

\* history: the splash of projectile p, which resolved in g and left the
\* zombie objects as after
SplashNote(g, p, after) ==
    IF TakesEffect(p, g.zobj[p.target]) /\ p.splash_radius > 0
    THEN << [shot |-> p,
             before |-> Snapshot(g.zobj, g.zombies, 1, g.nextId - 1),
             after |-> Snapshot(after, g.zombies, 1, g.nextId - 1)] >>
    ELSE << >>

\* history: g1 is the session after projectile p resolved in g; notes whether
\* p, with its target out of self.zombies or with health <= 0, changed a
\* health, the slow that p applied and the splash of p
Landed(g, p, g1) ==
    [g1 EXCEPT !.log.splashes = @ \o SplashNote(g, p, g1.zobj),
               !.log.stale_hit =
                  \/ @
                  \/ /\ ~InSeq(g.zombies, p.target) \/ g.zobj[p.target].health <= 0
                     /\ \E id \in DOMAIN g.zobj : g1.zobj[id].health # g.zobj[id].health,
               !.exits[p.target] =
                  IF SlowApplied(g, p, g1)
                  THEN [@ EXCEPT !.slow_hits = @ + 1, !.slow_cfg = p.slow,
                                 !.slow_before = g.zobj[p.target].slow_factor,
                                 !.slow_age = 0]
                  ELSE @]

\* handle_projectiles: the loop over list(self.projectiles) from index i;
\* out holds the projectiles still in self.projectiles
RECURSIVE ProjectileLoop(_, _, _, _, _)

\* handle_projectiles, lines 354-365: p is snap[i] after its update
ProjectileStep(g, snap, i, dt, out, p) ==
    IF p.alive
    THEN ProjectileLoop(g, snap, i + 1, dt, Append(out, p))
    ELSE ProjectileLoop(Landed(g, p, Resolve(g, p)), snap, i + 1, dt, out)

ProjectileLoop(g, snap, i, dt, out) ==
    IF i > Len(snap) THEN [g EXCEPT !.projectiles = out]
    ELSE ProjectileStep(g, snap, i, dt, out,
                        ProjectileUpdate(snap[i], g.zobj[snap[i].target], dt))

\* Game.handle_projectiles
handle_projectiles(g, dt) == ProjectileLoop(g, g.projectiles, 1, dt, << >>)

\* remove_dead_zombies, line 370
IsDead(z) == z.health <= 0

\* the kill that takes 10 points off the score
Credit_ScoreDown(g, id) ==
    [g EXCEPT !.coins = g.coins + g.zobj[id].reward,
              !.score = g.score - 10]

\* remove_dead_zombies, lines 372-373: the reward and the score of a kill
Credit(g, id) ==
    [g EXCEPT !.coins = g.coins + g.zobj[id].reward,
              !.score = g.score + 20 + g.wave * 5]

\* remove_dead_zombies: the loop over list(self.zombies) from index i
RECURSIVE RemoveDeadLoop(_, _, _)
RemoveDeadLoop(g, snap, i) ==
    IF i > Len(snap) THEN g
    ELSE
      LET id == snap[i]
      IN  IF IsDead(g.zobj[id])
          THEN RemoveDeadLoop([Credit(g, id) EXCEPT
                                        !.zombies = RemoveFirst(g.zombies, id),
                                        !.exits[id].killed = @ + 1,
                                        !.exits[id].health = g.zobj[id].health,
                                        !.exits[id].credited = @ + 1],
                              snap, i + 1)
          ELSE RemoveDeadLoop(g, snap, i + 1)

\* remove_dead_zombies that removes nothing
remove_dead_zombies_Skip(g) == g

\* Game.remove_dead_zombies
remove_dead_zombies(g) == RemoveDeadLoop(g, g.zombies, 1)

\* update_game, line 404: r is what Tower.update gave for tower i
TowerStep(g, i, r) ==
    [g EXCEPT !.towers[i] = r.tower,
              !.projectiles = g.projectiles \o r.shots,
              !.log.towers = Append(@, r.note)]

\* update_game, lines 403-404: the loop over self.towers from index i
RECURSIVE TowerLoop(_, _, _)
TowerLoop(g, i, dt) ==
    IF i > Len(g.towers) THEN g
    ELSE TowerLoop(TowerStep(g, i, TowerUpdate(g.towers[i], dt, g.zombies, g.zobj)),
                   i + 1, dt)

\* zombie objects still referred to by self.zombies or by a projectile
Referenced(g) ==
    {g.zombies[i] : i \in 1..Len(g.zombies)}
        \cup {g.projectiles[i].target : i \in 1..Len(g.projectiles)}

\* objects without a reference are collected
Collect(g) == [g EXCEPT !.zobj = [id \in Referenced(g) |-> g.zobj[id]]]

\* history: the session g after remove_dead_zombies, called in session g0
Removed(g0, g) ==
    [g EXCEPT !.log.killed = SelectSeq(g0.zombies, LAMBDA id : ~InSeq(g.zombies, id)),
              !.log.rewarded = g.coins - g0.coins,
              !.log.scored = g.score - g0.score,
              !.log.in_flight = Len(g.projectiles)]

\* update_game, lines 390-398
ZombiePhase(g, dt) == ZombieLoop(g, g.zombies, 1, dt)

\* update_game, line 401
RemovePhase(g) == Removed(g, remove_dead_zombies(g))

\* history: the log at the start of update_game
FrameLog(g) ==
    [NullLog EXCEPT !.event = g.log.event, !.came_from = g.log.came_from]

\* history: update_game was called
Called(g) == [g EXCEPT !.log = FrameLog(g), !.ticks = g.ticks + 1]

\* history: update_game ran past the pause test
Ticked(g, dt) == [g EXCEPT !.log.ticked = TRUE, !.log.dt = dt]

\* update_game reaches the part called name: "wave" (lines 380-388), "zombies"
\* (390-398, with "check" for each test of the lives, 395), "projectiles"
\* (400), "removal" (401), "towers" (403-404)
Began(name, g) == [g EXCEPT !.log.order = Append(@, name)]

\* update_game without the pause test
update_game_NoPause(g, dt, pick) ==
    Collect(TowerLoop(Began("towers", RemovePhase(Began("removal",
        handle_projectiles(Began("projectiles",
            ZombiePhase(Began("zombies",
                WavePhase(Began("wave", Ticked(Called(g), dt)), dt, pick)),
                dt)), dt)))), 1, dt))

\* Game.update_game
update_game(g, dt, pick) ==
    IF g.pause THEN Called(g)
    ELSE Collect(TowerLoop(Began("towers", RemovePhase(Began("removal",
             handle_projectiles(Began("projectiles",
                 ZombiePhase(Began("zombies",
                     WavePhase(Began("wave", Ticked(Called(g), dt)), dt, pick)),
                     dt)), dt)))), 1, dt))

----------------------------------------------------------------------------
(* Input *)

\* pygame.Rect.collidepoint for Rect(left, top, w, h)
collidepoint(left, top, w, h, pos) ==
    /\ left <= pos[1] /\ pos[1] < left + w
    /\ top <= pos[2] /\ pos[2] < top + h

\* Game.point_to_segment_distance, squared, in pixels; the closest point
\* a + ab * t is rounded down to a whole pixel (exact on this path, whose
\* segments are parallel to the axes)
point_to_segment_distance2(point, a, b) ==
    LET ap == <<point[1] - a[1], point[2] - a[2]>>
        ab == <<b[1] - a[1], b[2] - a[2]>>
        ab_len2 == ab[1] * ab[1] + ab[2] * ab[2]
    IN  IF ab_len2 = 0 THEN ap[1] * ap[1] + ap[2] * ap[2]
        ELSE LET dot == clamp(ap[1] * ab[1] + ap[2] * ab[2], 0, ab_len2)
                 closest == <<a[1] + (ab[1] * dot) \div ab_len2,
                              a[2] + (ab[2] * dot) \div ab_len2>>
             IN  Dist2(point, closest)

\* can_place, with the path test made against the waypoints only
can_place_WaypointsOnly(g, position) ==
    /\ PLAY_AREA.left <= position[1] - 16 /\ position[1] + 16 <= PLAY_AREA.right
    /\ PLAY_AREA.top <= position[2] - 16 /\ position[2] + 16 <= PLAY_AREA.bottom
    /\ \A i \in 1..Len(g.towers) : ~(Dist2(g.towers[i].position, position) < 36 * 36)
    /\ \A i \in 1..Len(PathPx) : ~(Dist2(position, PathPx[i]) < 40 * 40)

\* Game.can_place
can_place(g, position) ==
    /\ PLAY_AREA.left <= position[1] - 16 /\ position[1] + 16 <= PLAY_AREA.right
    /\ PLAY_AREA.top <= position[2] - 16 /\ position[2] + 16 <= PLAY_AREA.bottom
    /\ \A i \in 1..Len(g.towers) : ~(Dist2(g.towers[i].position, position) < 36 * 36)
    /\ \A i \in 1..(Len(PathPx) - 1) :
          ~(point_to_segment_distance2(position, PathPx[i], PathPx[i + 1]) < 40 * 40)

\* handle_game_click, lines 551-554
Snap(pos) ==
    << (pos[1] \div GRID_SIZE) * GRID_SIZE + GRID_SIZE \div 2,
       (pos[2] \div GRID_SIZE) * GRID_SIZE + GRID_SIZE \div 2 >>

\* handle_game_click, lines 544-547: the loop over the tower buttons from i
RECURSIVE ButtonLoop(_, _, _)
ButtonLoop(g, pos, i) ==
    IF i >= Len(TOWER_TYPES) THEN g
    ELSE IF /\ collidepoint(420 + i * 160, PLAY_AREA.bottom + 10, 140, 70, pos)
            /\ g.coins >= TOWER_TYPES[i + 1].cost
         THEN ButtonLoop([g EXCEPT !.selected_tower = i], pos, i + 1)
         ELSE ButtonLoop(g, pos, i + 1)

\* handle_game_click, lines 557-564: the funds test of the placement.
\* Side HEAD of the conflict tests the coins, side main places without a test.
CanAfford(g, cost) == g.variant = "main" \/ g.coins >= cost

\* handle_game_click, lines 567-570: first placed tower within 20 pixels of pos, or NoSel
RECURSIVE TowerAt(_, _, _)
TowerAt(g, pos, idx) ==
    IF idx >= Len(g.towers) THEN NoSel
    ELSE IF Dist2(g.towers[idx + 1].position, pos) < 20 * 20 THEN idx
    ELSE TowerAt(g, pos, idx + 1)

\* Game.handle_game_click.  TOWER_TYPES[self.selected_tower] raises IndexError
\* when the index is past the table.
handle_game_click(g, pos) ==
    IF pos[2] > PLAY_AREA.bottom THEN ButtonLoop(g, pos, 0)
    ELSE IF g.selected_tower # NoSel
    THEN IF can_place(g, Snap(pos))
         THEN IF g.selected_tower >= Len(TOWER_TYPES)
              THEN [g EXCEPT !.crashed = TRUE]
              ELSE LET cost == TOWER_TYPES[g.selected_tower + 1].cost
                   IN  IF CanAfford(g, cost)
                       THEN [g EXCEPT !.towers = Append(@, NewTower(g.selected_tower, Snap(pos))),
                                      !.coins = g.coins - cost]
                       ELSE g
         ELSE g
    ELSE LET idx == TowerAt(g, pos, 0)
         IN  IF idx # NoSel THEN [g EXCEPT !.selected_tower = idx] ELSE g

\* handle_key, line 582: the funds test of the upgrade
CanUpgrade(g, cost) == g.coins >= cost

\* SPACE that starts a wave whether or not one is in progress
KeySpace_Always(g, key) == IF key = "K_SPACE" THEN start_wave(g) ELSE g

\* handle_key, lines 573-578
KeyEscape(g, key) == IF key = "K_ESCAPE" THEN [g EXCEPT !.state = "menu"] ELSE g
KeyPause(g, key) == IF key = "K_p" THEN [g EXCEPT !.pause = ~g.pause] ELSE g
KeySpace(g, key) == IF key = "K_SPACE" /\ ~g.wave_in_progress THEN start_wave(g) ELSE g

\* handle_key, lines 579-584.  self.towers[self.selected_tower] raises
\* IndexError when the index is past the list.
KeyUpgrade(g, key) ==
    IF key = "K_u" /\ g.selected_tower # NoSel
    THEN IF g.selected_tower >= Len(g.towers)
         THEN [g EXCEPT !.crashed = TRUE]
         ELSE LET tower == g.towers[g.selected_tower + 1]
                  cost  == upgrade_cost(tower)
              IN  IF CanUpgrade(g, cost)
                  THEN [g EXCEPT !.coins = g.coins - cost,
                                 !.towers[g.selected_tower + 1] = upgrade(tower)]
                  ELSE g
    ELSE g

\* Game.handle_key
handle_key(g, key) == KeyUpgrade(KeySpace(KeyPause(KeyEscape(g, key), key), key), key)

\* history: the handler of the event (op, pos, key) took the session g to h
Handled(op, pos, key, g, h) ==
    [h EXCEPT !.log.came_from = Phase(g), !.log.event =
        [op |-> op, pos |-> pos, key |-> key,
         coins |-> g.coins, selected |-> g.selected_tower, towers |-> g.towers,
         coins_after |-> h.coins, selected_after |-> h.selected_tower,
         towers_after |-> h.towers,
         other |-> [h EXCEPT !.coins = g.coins, !.selected_tower = g.selected_tower,
                             !.towers = g.towers, !.crashed = g.crashed] # g,
         raised |-> h.crashed /\ ~g.crashed]]

\* Game.run, lines 704-705: a mouse click at pos
Clicked(g, pos) == Handled("click", pos, "", g, handle_game_click(g, pos))

\* Game.run, lines 706-707: a key press
Pressed(g, key) == Handled("key", <<0, 0>>, key, g, handle_key(g, key))

\* Game.run, lines 700-707: a frame without a click or a key press
NoInput(g) == [g EXCEPT !.log.event = NoEvent, !.log.came_from = Phase(g)]

----------------------------------------------------------------------------
(* The state machine *)

\* the fields of Game, as a record
Cur ==
    [variant |-> variant, state |-> state, running |-> running, crashed |-> crashed,
     high_score |-> high_score, hs_file |-> hs_file, towers |-> towers,
     projectiles |-> projectiles, zombies |-> zombies, zobj |-> zobj,
     selected_tower |-> selected_tower, coins |-> coins, lives |-> lives,
     score |-> score, wave |-> wave, wave_in_progress |-> wave_in_progress,
     spawn_timer |-> spawn_timer, spawn_queue |-> spawn_queue, pause |-> pause,
     nextId |-> nextId, ticks |-> ticks, exits |-> exits, log |-> log]

\* the state is the record g
Is(g) ==
    /\ variant = g.variant /\ state = g.state /\ running = g.running
    /\ crashed = g.crashed /\ high_score = g.high_score /\ hs_file = g.hs_file
    /\ towers = g.towers /\ projectiles = g.projectiles /\ zombies = g.zombies
    /\ zobj = g.zobj /\ selected_tower = g.selected_tower /\ coins = g.coins
    /\ lives = g.lives /\ score = g.score /\ wave = g.wave
    /\ wave_in_progress = g.wave_in_progress /\ spawn_timer = g.spawn_timer
    /\ spawn_queue = g.spawn_queue /\ pause = g.pause /\ nextId = g.nextId
    /\ ticks = g.ticks /\ exits = g.exits /\ log = g.log

\* the next state is the record g
Becomes(g) ==
    /\ variant' = g.variant /\ state' = g.state /\ running' = g.running
    /\ crashed' = g.crashed /\ high_score' = g.high_score /\ hs_file' = g.hs_file
    /\ towers' = g.towers /\ projectiles' = g.projectiles /\ zombies' = g.zombies
    /\ zobj' = g.zobj /\ selected_tower' = g.selected_tower /\ coins' = g.coins
    /\ lives' = g.lives /\ score' = g.score /\ wave' = g.wave
    /\ wave_in_progress' = g.wave_in_progress /\ spawn_timer' = g.spawn_timer
    /\ spawn_queue' = g.spawn_queue /\ pause' = g.pause /\ nextId' = g.nextId
    /\ ticks' = g.ticks /\ exits' = g.exits /\ log' = g.log

\* frame times explored (ms): clock.tick(FPS) returns the real time elapsed;
\* the machine is slow and a frame takes a second
Dts == {1000}

\* the frame time while the window is being dragged (ms)
LagMs == 8 * 1000

\* the builds and the contents of highscore.json explored:
\* each side of the merge conflict, once without and once with a file
Builds == { <<"HEAD", NoFile>>, <<"main", Saved(60)>> }

\* mouse positions explored: the four tower buttons, three free cells (two
\* near the start and one near the end of the path), a cell on the path, a
\* cell that sticks out of the play area
ButtonClicks == { <<490 + i * 160, 665>> : i \in 0..3 }
FieldClicks == { <<180, 70>>, <<80, 70>>, <<1070, 330>>, <<130, 120>>, <<80, 610>> }

Keys == {"K_ESCAPE", "K_p", "K_SPACE", "K_u"}

\* outcomes of load_high_score: a value returned, an exception raised
Returns(n) == [value |-> n, raised |-> FALSE]
Raises == [value |-> 0, raised |-> TRUE]

\* load_high_score on the file content.  Lines 62-63 return 0 without a file;
\* OSError (open), json.JSONDecodeError (json.load) and ValueError
\* (int of a non-numeric string) are caught by line 68; data.get on a JSON
\* value that is not an object raises AttributeError, and int(None) or
\* int([...]) raises TypeError, which line 68 does not catch
load_high_score(file) ==
    IF file.kind = "missing" THEN Returns(0)
    ELSE IF file.kind \in {"unreadable", "text", "string_value"} THEN Returns(0)
    ELSE IF file.kind \in {"array", "number"} THEN Raises
    ELSE IF file.kind = "no_key" THEN Returns(0)
    ELSE IF file.kind = "saved" THEN Returns(file.value)
    ELSE Raises

\* Game.__init__ for a build and a high-score file
Constructed(side, file) ==
    reset_game([variant |-> side, state |-> "menu", running |-> TRUE,
                crashed |-> load_high_score(file).raised,
                high_score |-> load_high_score(file).value,
                hs_file |-> file, towers |-> << >>, projectiles |-> << >>,
                zombies |-> << >>, zobj |-> << >>, selected_tower |-> NoSel,
                coins |-> 0, lives |-> 0, score |-> 0, wave |-> 0,
                wave_in_progress |-> FALSE, spawn_timer |-> 0,
                spawn_queue |-> EmptyQueue, pause |-> FALSE, nextId |-> 1,
                ticks |-> 0, exits |-> << >>, log |-> NullLog])

\* the categories a pop of the spawn queue can yield in this frame
Picks(g, dt) ==
    IF ~g.pause /\ g.wave_in_progress /\ ShouldSpawn(g.spawn_timer - dt, g.spawn_queue)
    THEN {k \in ZombieKinds : g.spawn_queue[k] > 0}
    ELSE {"walker"}

(* Openings.  Besides the sessions explored from the menu in full, sessions *)
(* are explored from a later point: up to that point the player follows an   *)
(* opening, in which they start the game, press SPACE and buy nothing, so    *)
(* that the zombies walk through; every frame takes one second and the       *)
(* shuffle put the walkers first.  While plan is not empty only its next     *)
(* step is taken; once it is empty every action is explored.                 *)

\* steps of an opening
DoStart == [op |-> "start", key |-> "", stop |-> 0]
DoSpace == [op |-> "key", key |-> "K_SPACE", stop |-> 0]
\* idle frames until the wave is over or at most stop lives are left
DoIdle(stop) == [op |-> "idle", key |-> "", stop |-> stop]
\* one frame of LagMs
DoLag == [op |-> "lag", key |-> "", stop |-> 0]

\* no opening; wave 1 down to 17 lives; wave 1 lost in full and wave 2 down
\* to 5 lives, then one frame of LagMs, in which the zombies that were on
\* the same segment of the path arrive together
Openings ==
    { << >>,
      << DoStart, DoSpace, DoIdle(17) >>,
      << DoStart, DoSpace, DoIdle(0), DoSpace, DoIdle(5), DoLag >> }

Init ==
    \E b \in Builds : \E o \in Openings :
        /\ Is(Constructed(b[1], b[2]))
        /\ plan = o

Scripted == plan # << >>

\* the action op (with key, for a key press) is explored in this state
Allowed(op, key) ==
    IF Scripted THEN Head(plan).op = op /\ Head(plan).key = key ELSE TRUE

\* plan after an action that is not a frame of the game
NextStep == plan' = IF Scripted THEN Tail(plan) ELSE plan

\* plan after a frame of the game that left the session as h
AfterFrame(h) ==
    IF ~Scripted THEN plan
    ELSE IF Head(plan).op = "idle" /\ h.wave_in_progress /\ h.lives > Head(plan).stop
    THEN plan
    ELSE Tail(plan)

\* the frame times of this frame
FrameTimes == IF Scripted /\ Head(plan).op = "lag" THEN {LagMs} ELSE Dts

\* the entries the pop can yield in this frame
FramePicks(g, dt) ==
    IF Scripted /\ "walker" \in Picks(g, dt) THEN {"walker"} ELSE Picks(g, dt)

InMenu == running /\ ~crashed /\ state = "menu"
InSettings == running /\ ~crashed /\ state = "settings"
InGameover == running /\ ~crashed /\ state = "gameover"
InGame == running /\ ~crashed /\ state \notin {"menu", "settings", "gameover"}

\* the session after update_game is h; the frames of an opening do not count
\* as explored, and MaxAfter frames are explored after it
Lands(h) ==
    /\ Becomes(IF Scripted THEN [h EXCEPT !.ticks = MaxTicks - MaxAfter] ELSE h)
    /\ plan' = AfterFrame(h)

\* Game.run, lines 700-711, after the events of the frame: g is the session
\* after the handlers
Frame(g) ==
    IF g.crashed THEN Becomes([g EXCEPT !.log = FrameLog(g)]) /\ plan' = plan
    ELSE \E dt \in FrameTimes : \E pick \in FramePicks(g, dt) :
            /\ g.ticks < MaxTicks
            /\ Lands(update_game(g, dt, pick))

\* run_menu: Start Game
MenuStart ==
    /\ InMenu
    /\ Allowed("start", "")
    /\ Becomes([reset_game(Cur) EXCEPT !.state = "game", !.log = Arrived(Cur)])
    /\ NextStep

\* run_menu: Settings
MenuSettings ==
    /\ InMenu
    /\ ~Scripted
    /\ Becomes([Cur EXCEPT !.state = "settings", !.log = Arrived(Cur)])
    /\ plan' = plan

\* run_menu, run_settings, run_gameover: Quit, or the window is closed
MenuQuit ==
    /\ InMenu \/ InSettings \/ InGameover
    /\ ~Scripted
    /\ Becomes([Cur EXCEPT !.running = FALSE, !.log = Arrived(Cur)])
    /\ plan' = plan

\* run_settings: Back
SettingsBack ==
    /\ InSettings
    /\ Becomes([Cur EXCEPT !.state = "menu", !.log = Arrived(Cur)])
    /\ plan' = plan

\* run_gameover: Retry
GameoverRetry ==
    /\ InGameover
    /\ ~Scripted
    /\ Becomes([reset_game(Cur) EXCEPT !.state = "game", !.log = Arrived(Cur)])
    /\ plan' = plan

\* run_gameover: Main Menu
GameoverMenu ==
    /\ InGameover
    /\ ~Scripted
    /\ Becomes([Cur EXCEPT !.state = "menu", !.log = Arrived(Cur)])
    /\ plan' = plan

\* Game.run: a frame without events
FrameIdle ==
    /\ InGame
    /\ IF Scripted THEN Head(plan).op \in {"idle", "lag"} ELSE TRUE
    /\ Frame(NoInput(Cur))

\* the frame after a click that left the session as g; at most MaxTowers
\* towers are placed
Bounded(g) == Len(g.towers) <= MaxTowers /\ Frame(g)

\* Game.run: a frame with a mouse click
FrameClick ==
    /\ InGame
    /\ ~Scripted
    /\ \E pos \in ButtonClicks \cup FieldClicks : Bounded(Clicked(Cur, pos))

\* Game.run: a frame with a key press
FrameKey ==
    /\ InGame
    /\ \E key \in Keys :
          /\ Allowed("key", key)
          /\ Frame(Pressed(Cur, key))

\* Game.run: a frame in which the window is closed
FrameQuit ==
    /\ InGame
    /\ ~Scripted
    /\ Frame(NoInput([Cur EXCEPT !.running = FALSE]))

Next ==
    \/ MenuStart
    \/ MenuSettings
    \/ MenuQuit
    \/ SettingsBack
    \/ GameoverRetry
    \/ GameoverMenu
    \/ FrameIdle
    \/ FrameClick
    \/ FrameKey
    \/ FrameQuit

Spec == Init /\ [][Next]_vars

----------------------------------------------------------------------------
(* The persistence functions on their own: load_high_score and              *)
(* save_high_score called in any order on any content of the file.          *)

\* scores saved: 0..MaxSaved
MaxSaved == 4

Files == {NoFile} \cup Corrupt \cup {Saved(n) : n \in 0..MaxSaved}

InitFile ==
    \E f \in Files :
        /\ Is([Constructed("HEAD", NoFile) EXCEPT !.hs_file = f])
        /\ plan = << >>

\* history: save_high_score(n) was called and found file
SaveNote(n, file) ==
    [op |-> "save", arg |-> n, file |-> file, value |-> 0, raised |-> FALSE,
     saved |-> << >>]

\* history: load_high_score() was called, found file and ended as r; last is
\* the call before it
LoadNote(file, r, last) ==
    [op |-> "load", arg |-> 0, file |-> file, value |-> r.value, raised |-> r.raised,
     saved |-> IF last.op = "save"
               THEN << [arg |-> last.arg, file |-> last.file] >>
               ELSE << >>]

\* self.high_score = load_high_score() (line 306) ended as r; an exception
\* of load_high_score is caught nowhere
Loaded(g, r) ==
    [g EXCEPT !.crashed = r.raised,
              !.high_score = IF r.raised THEN @ ELSE r.value,
              !.log.io = LoadNote(g.hs_file, r, g.log.io)]

CallSave ==
    /\ ~crashed
    /\ \E n \in 0..MaxSaved :
          Becomes([save_high_score(Cur, n) EXCEPT !.log.io = SaveNote(n, hs_file)])
    /\ plan' = plan

CallLoad ==
    /\ ~crashed
    /\ Becomes(Loaded(Cur, load_high_score(hs_file)))
    /\ plan' = plan

NextFile ==
    \/ CallSave
    \/ CallLoad

SpecFile == InitFile /\ [][NextFile]_vars

----------------------------------------------------------------------------
(* The wave director on its own: start_wave and the wave block of           *)
(* update_game (lines 380-388), for one wave of any number up to MaxWave.   *)
(* The zombies on the path leave when the environment says so.              *)

\* waves 1..MaxWave are explored
MaxWave == 5

\* frame times of the wave director (ms)
DirectorDts == {500, 1000}

\* a running game about to start wave w
InitDirector ==
    \E w \in 1..MaxWave :
        /\ Is([reset_game(Constructed("HEAD", NoFile)) EXCEPT !.state = "game",
                                                              !.wave = w - 1])
        /\ plan = << >>

\* the entries the pop can yield: the boss wherever the shuffle put it, the
\* other entries walkers first, then runners, then brutes
DirectorPicks(g, dt) ==
    IF ~ShouldSpawn(g.spawn_timer - dt, g.spawn_queue) THEN {"walker"}
    ELSE {k \in {"boss"} : g.spawn_queue[k] > 0}
         \cup (IF g.spawn_queue["walker"] > 0 THEN {"walker"}
               ELSE IF g.spawn_queue["runner"] > 0 THEN {"runner"}
               ELSE {k \in {"brute"} : g.spawn_queue[k] > 0})

\* handle_key, lines 577-578: SPACE starts the wave
DirectorStart ==
    /\ ~wave_in_progress /\ exits = << >>
    /\ Becomes([start_wave(Cur) EXCEPT !.log = NullLog])
    /\ plan' = plan

\* update_game, lines 380-388, for a frame of dt; once the queue is empty
\* the frames that only run the countdown further down are left out
DirectorTick ==
    /\ wave_in_progress
    /\ QueueLen(spawn_queue) > 0 \/ zombies = << >>
    /\ \E dt \in DirectorDts : \E pick \in DirectorPicks(Cur, dt) :
          Becomes(WavePhase(Ticked([Cur EXCEPT !.log = NullLog], dt), dt, pick))
    /\ plan' = plan

\* the zombies on the path have left self.zombies (lines 392 and 371)
DirectorClear ==
    /\ wave_in_progress /\ zombies # << >>
    /\ Becomes(Collect([Cur EXCEPT !.zombies = << >>, !.log = NullLog]))
    /\ plan' = plan

NextDirector ==
    \/ DirectorStart
    \/ DirectorTick
    \/ DirectorClear

SpecDirector == InitDirector /\ [][NextDirector]_vars

----------------------------------------------------------------------------
(* Upgrades on their own: a game with towers standing and no wave, in which  *)
(* the player clicks on the towers and on the buttons and presses U, with    *)
(* the coins of a long game.                                                 *)

\* towers are upgraded up to this level
MaxLevel == 25

\* the cells of the two towers, and the clicks explored: on each tower, on
\* the Rifle button and on the Sniper button
CellA == Snap(<<180, 70>>)
CellB == Snap(<<80, 70>>)
UpgradeClicks == { <<180, 70>>, <<80, 70>>, <<490, 665>>, <<650, 665>> }

\* the towers standing: one tower of any type, or a Rifle and a Sniper
Lineups ==
    { << NewTower(k, CellA) >> : k \in 0..(Len(TOWER_TYPES) - 1) }
        \cup { << NewTower(0, CellA), NewTower(1, CellB) >> }

\* the coins of the player: those of a new game, and those of a long one
UpgradeCoins == {200, 30000}

InitUpgrade ==
    \E line \in Lineups : \E sel \in {0, 1} : \E c \in UpgradeCoins :
        /\ Is([reset_game(Constructed("HEAD", NoFile)) EXCEPT
                   !.state = "game", !.towers = line,
                   !.selected_tower = sel, !.coins = c])
        /\ plan = << >>

\* a frame of the game (lines 700-711) whose handler left the session as g
UpgradeFrame(g) ==
    /\ Becomes([update_game(g, 1000, "walker") EXCEPT !.ticks = 0])
    /\ plan' = plan

\* a frame with a click on a tower or on a button
UpgradeClick ==
    /\ InGame
    /\ \E pos \in UpgradeClicks : UpgradeFrame(Clicked(Cur, pos))

\* a frame with the key U
UpgradeKey ==
    /\ InGame
    /\ \A i \in 1..Len(towers) : towers[i].level < MaxLevel
    /\ UpgradeFrame(Pressed(Cur, "K_u"))

NextUpgrade ==
    \/ UpgradeClick
    \/ UpgradeKey

SpecUpgrade == InitUpgrade /\ [][NextUpgrade]_vars

----------------------------------------------------------------------------
(* One zombie on a path of its own: Zombie takes its path as an argument,    *)
(* and the paths here have equal consecutive waypoints, which Game.path has  *)
(* not.                                                                      *)

\* a path in position units
Scaled(px) == [i \in 1..Len(px) |-> <<px[i][1] * SubPixel, px[i][2] * SubPixel>>]

\* the paths walked: Game.path, a single waypoint, and paths with a repeated
\* waypoint at the start, in the middle, twice in a row, and at the end
ZombiePaths ==
    { path,
      Scaled(<< <<0, 140>> >>),
      Scaled(<< <<0, 140>>, <<0, 140>>, <<90, 140>> >>),
      Scaled(<< <<0, 140>>, <<90, 140>>, <<90, 140>>, <<90, 200>> >>),
      Scaled(<< <<0, 140>>, <<90, 140>>, <<90, 140>>, <<90, 140>>, <<30, 140>> >>),
      Scaled(<< <<0, 140>>, <<90, 140>>, <<90, 140>> >>) }

\* the frame times explored (ms)
ZombieDts == {500, 1000}

InitZombie ==
    \E p \in ZombiePaths : \E k \in {"walker", "runner", "brute", "boss"} :
        /\ Is([reset_game(Constructed("HEAD", NoFile)) EXCEPT
                   !.state = "game", !.wave = 1, !.wave_in_progress = TRUE,
                   !.zombies = << 1 >>,
                   !.zobj = [id \in {1} |-> Zombie(p, k)],
                   !.exits = << NoExit(k) >>,
                   !.nextId = 2])
        /\ plan = << >>

\* update_game, lines 390-398: the loop over the zombies, in a frame of dt
ZombieTick ==
    /\ zombies # << >>
    /\ \E dt \in ZombieDts :
           Becomes(ZombieLoop(Ticked([Cur EXCEPT !.log = NullLog], dt),
                              zombies, 1, dt))
    /\ plan' = plan

\* a Frost projectile reaches the zombie (handle_projectiles, lines 361-364)
ZombieSlowed ==
    /\ zombies # << >>
    /\ zobj[1].slow_timer <= 0
    /\ Becomes([Cur EXCEPT !.zobj[1].slow_factor = 100 - TOWER_TYPES[4].slow,
                           !.zobj[1].slow_timer = TOWER_TYPES[4].slow_duration,
                           !.log = NullLog])
    /\ plan' = plan

NextZombie ==
    \/ ZombieTick
    \/ ZombieSlowed

SpecZombie == InitZombie /\ [][NextZombie]_vars

----------------------------------------------------------------------------
(* The last lives of a game: a wave whose queue is spent, one zombie about   *)
(* to reach the end of the path and a wounded one behind it, in range of a   *)
(* tower.                                                                    *)

\* the frame times explored (ms)
LastDts == {500, 1000}

\* the cell of the tower, beside the last segment of the path
LastCell == Snap(<<1030, 330>>)

\* a walker on the last segment of the path, x pixels from the left, with
\* health h
LastWalker(x, h) ==
    [Zombie(path, "walker") EXCEPT !.path_index = Len(path) - 2,
                                   !.position = ToUnits(<<x, 260>>),
                                   !.health = h]

InitLast ==
    \E l \in {1, 2} : \E h \in {15, 30} : \E sc \in {0, 50} :
    \E k \in 0..(Len(TOWER_TYPES) - 1) :
        /\ Is([reset_game(Constructed("HEAD", NoFile)) EXCEPT
                   !.state = "game", !.wave = 1, !.wave_in_progress = TRUE,
                   !.lives = l, !.score = sc,
                   !.towers = << NewTower(k, LastCell) >>,
                   !.selected_tower = k,
                   !.zombies = << 1, 2 >>,
                   !.zobj = [id \in {1, 2} |->
                                IF id = 1
                                THEN LastWalker(1080, ZOMBIE_TYPES["walker"].health)
                                ELSE LastWalker(1000, h)],
                   !.exits = << NoExit("walker"), NoExit("walker") >>,
                   !.nextId = 3])
        /\ plan = << >>

\* Game.run: a frame without events (lines 700-711)
LastFrame ==
    /\ InGame
    /\ wave_in_progress
    /\ \E dt \in LastDts : Becomes(update_game(NoInput(Cur), dt, "walker"))
    /\ plan' = plan

\* run_gameover: Main Menu
LastMenu ==
    /\ InGameover
    /\ Becomes([Cur EXCEPT !.state = "menu", !.log = Arrived(Cur)])
    /\ plan' = plan

NextLast ==
    \/ LastFrame
    \/ LastMenu

SpecLast == InitLast /\ [][NextLast]_vars

----------------------------------------------------------------------------
(* Waves played to their end: the player starts the waves, pauses and        *)
(* resumes, and buys nothing; a Frost tower may stand beside the first       *)
(* segment of the path and slow the zombies that pass.                       *)

\* waves started
MaxRounds == 1

\* the frame times explored (ms)
WaveDts == {1000}

\* the cell of the Frost tower
FrostCell == Snap(<<130, 80>>)

InitWave ==
    \E l \in {20, 3} : \E line \in { << >>, << NewTower(3, FrostCell) >> } :
        /\ Is([reset_game(Constructed("HEAD", NoFile)) EXCEPT
                   !.state = "game", !.lives = l, !.towers = line])
        /\ plan = << >>

\* a frame of the game (lines 700-711) whose handler left the session as g
WaveFrame(g) ==
    /\ \E dt \in WaveDts : \E pick \in DirectorPicks(g, dt) :
           \E h \in { [update_game(g, dt, pick) EXCEPT !.ticks = 0] } : Becomes(h)
    /\ plan' = plan

\* a frame with the key SPACE between two waves
WaveSpace ==
    /\ InGame
    /\ ~wave_in_progress
    /\ wave < MaxRounds
    /\ WaveFrame(Pressed(Cur, "K_SPACE"))

\* a frame with the key P during a wave
WavePause ==
    /\ InGame
    /\ wave_in_progress
    /\ WaveFrame(Pressed(Cur, "K_p"))

\* a frame without events during a wave, the game not paused
WaveTick ==
    /\ InGame
    /\ wave_in_progress
    /\ ~pause
    /\ WaveFrame(NoInput(Cur))

NextWave ==
    \/ WaveSpace
    \/ WavePause
    \/ WaveTick

SpecWave == InitWave /\ [][NextWave]_vars

\* a wave is being played
Playing == InGame /\ wave_in_progress

\* unpaused ticks keep occurring: as long as a wave is being played, frames
\* without events are run again and again with the game not paused.  The
\* main loop runs update_game in every frame (line 709); that the player
\* does not leave the game paused for ever is the premise of C34.
SpecWaveFair == SpecWave /\ ([]<>Playing => []<><<WaveTick>>_vars)

----------------------------------------------------------------------------
(* Properties *)

\* what the specification gives a tower of type and level of t
RangeAt(t) == TOWER_TYPES[t.tower_type + 1].range + (t.level - 1) * 10
RateAt(t) == TOWER_TYPES[t.tower_type + 1].fire_rate + (t.level - 1) * 200
DamageAt(t) == TOWER_TYPES[t.tower_type + 1].damage + (t.level - 1) * 6

\* zombie id is within the range of tower t
InRange(t, id) ==
    Dist2(zobj[id].position, ToUnits(t.position))
        <= (RangeAt(t) * SubPixel) * (RangeAt(t) * SubPixel)

\* the towers that fired in the last update_game
Fired == {i \in 1..Len(log.towers) : log.towers[i].fired}

\* the projectiles the towers appended in the last update_game
NewShots == SubSeq(projectiles, log.in_flight + 1, Len(projectiles))

\* sum of the rewards of the zombies ids
RECURSIVE RewardSum(_)
RewardSum(ids) ==
    IF ids = << >> THEN 0
    ELSE ZOMBIE_TYPES[exits[Head(ids)].type].reward + RewardSum(Tail(ids))

\* C1: the currency is never negative
C1_CoinsNeverNegative == coins >= 0

\* C2: the lives are never negative, also when several zombies escape in
\* one tick
C2_LivesNeverNegative == lives >= 0

\* C3: a step that takes the lives from above 0 to 0 or less ends in state
\* gameover with the high score, in memory and in the file, the maximum of
\* the previous high score and the score; state gameover is only ever held
\* with lives <= 0
C3_LossOnLastLife ==
    [][ /\ (lives > 0 /\ lives' <= 0) =>
              /\ state' = "gameover"
              /\ high_score' = Max(high_score, score)
              /\ hs_file' = Saved(high_score')
        /\ state' = "gameover" => lives' <= 0 ]_vars

C3_LostKeepingHighScore ==
    /\ state = "gameover" /\ log.escapes > 0 /\ lives <= 0
    /\ high_score > score /\ hs_file = Saved(high_score)

\* C4: a zombie leaves the active set at most once and is outside it exactly
\* when it has left; it leaves as killed only with health <= 0, and then its
\* reward is credited once: the coins and the score that remove_dead_zombies
\* adds in a tick are the rewards and the kill scores of the zombies it
\* removed; an escaped zombie is credited nothing
C4_ZombieLeavesOnce ==
    /\ \A id \in 1..Len(exits) :
          /\ exits[id].killed + exits[id].escaped <= 1
          /\ InSeq(zombies, id) <=> (exits[id].killed + exits[id].escaped = 0)
          /\ exits[id].killed = 1 => exits[id].health <= 0
          /\ exits[id].credited = exits[id].killed
    /\ \A i \in 1..Len(log.killed) : exits[log.killed[i]].killed = 1
    /\ log.rewarded = RewardSum(log.killed)
    /\ log.scored = Len(log.killed) * (20 + wave * 5)

C4_KilledAndCredited ==
    /\ log.killed # << >>
    /\ log.rewarded > 0
    /\ \A i \in 1..Len(log.killed) : exits[log.killed[i]].credited = 1

\* C5: no zombie with health <= 0 is advanced; after a tick no zombie of the
\* active set has health <= 0, so none is there for the next advance or for
\* a tower to target; no projectile fired in the tick targets one
C5_DeadZombieInert ==
    /\ ~log.advanced_dead
    /\ \A i \in 1..Len(zombies) : zobj[zombies[i]].health > 0
    /\ log.ticked => \A k \in 1..Len(NewShots) : zobj[NewShots[k].target].health > 0

C5_KilledAndRemoved ==
    /\ log.killed # << >>
    /\ \A i \in 1..Len(log.killed) : ~InSeq(zombies, log.killed[i])
    /\ Fired # {}

\* C6: a projectile whose target has left the active set or has health <= 0
\* changes no zombie's health
C6_StaleProjectileHarmless == ~log.stale_hit

\* C7: when a wave is marked complete its spawn queue is empty and no zombie
\* is active; between waves there is no queue entry and no active zombie
C7_WaveCompleteOnlyWhenClear ==
    /\ log.completed => (log.completed_queue = 0 /\ log.completed_active = 0)
    /\ ~wave_in_progress => (QueueLen(spawn_queue) = 0 /\ zombies = << >>)

C7_WaveMarkedComplete == log.completed /\ ~wave_in_progress /\ wave >= 1

\* C8: no tower has a negative cooldown; a tower that fired in a tick had
\* cooldown 0 in that tick and fired at a zombie of the active set with
\* health > 0 within its range
C8_FireOnlyWhenReady ==
    /\ \A i \in 1..Len(towers) : towers[i].cooldown >= 0
    /\ \A i \in Fired :
          /\ log.towers[i].cooldown = 0
          /\ InSeq(zombies, log.towers[i].target)
          /\ zobj[log.towers[i].target].health > 0
          /\ InRange(towers[i], log.towers[i].target)

C8_OneFiresOneWaits ==
    \E i \in Fired : \E j \in 1..Len(log.towers) :
        /\ ~log.towers[j].fired
        /\ log.towers[j].target # 0
        /\ log.towers[j].cooldown > 0

\* C9: a tower that fired has cooldown 1 / fire rate of its level; the towers
\* that fired appended one projectile each and the others none; the
\* projectile has the damage of the tower's level, the splash radius and the
\* slow of its type, and the tower's target
C9_FiringResets ==
    log.ticked =>
        /\ Len(NewShots) = Cardinality(Fired)
        /\ \A i \in Fired :
              LET tt == TOWER_TYPES[towers[i].tower_type + 1]
                  p  == NewShots[Cardinality({j \in Fired : j <= i})]
              IN  /\ towers[i].cooldown = 1000000 \div RateAt(towers[i])
                  /\ p.damage = DamageAt(towers[i])
                  /\ p.splash_radius = tt.splash_radius
                  /\ p.slow = tt.slow
                  /\ p.slow_duration = tt.slow_duration
                  /\ p.target = log.towers[i].target
                  /\ p.position = ToUnits(towers[i].position)

C9_UpgradedTowerFired == \E i \in Fired : towers[i].level >= 2

\* C10: the target of a tower is a zombie of the active set within range
\* that no zombie within range is nearer than, and the first in list order
\* of those at its distance; with no zombie within range the tower has no
\* target and does not fire
C10_NearestTarget ==
    \A i \in 1..Len(log.towers) :
        LET t   == towers[i]
            tgt == log.towers[i].target
            D(k) == Dist2(zobj[zombies[k]].position, ToUnits(t.position))
            Near == {k \in 1..Len(zombies) : InRange(t, zombies[k])}
        IN  /\ tgt = 0 <=> Near = {}
            /\ tgt = 0 => ~log.towers[i].fired
            /\ tgt # 0 =>
                  \E j \in Near :
                      /\ zombies[j] = tgt
                      /\ \A k \in Near : D(k) > D(j) \/ (D(k) = D(j) /\ k >= j)

C10_TieGoesToFirst ==
    \E i \in 1..Len(log.towers) : \E j, k \in 1..Len(zombies) :
        /\ j < k
        /\ log.towers[i].target = zombies[j]
        /\ InRange(towers[i], zombies[k])
        /\ Dist2(zobj[zombies[k]].position, ToUnits(towers[i].position))
              = Dist2(zobj[zombies[j]].position, ToUnits(towers[i].position))

\* C11: a zombie slowed by a projectile of slow 0.45 and duration 1.8 s is
\* moved with multiplier 0.45 by every Zombie.update less than 1.8 s after
\* the slow was applied, and with multiplier 1 by every later one, unless it
\* is slowed again
C11_SlowedThenRestored ==
    \A id \in 1..Len(exits) :
        (exits[id].slow_cfg = 45 /\ exits[id].slow_age > 0) =>
            exits[id].moved_factor =
                IF exits[id].slow_age < TOWER_TYPES[4].slow_duration THEN 45 ELSE 100

\* C12: a slow overwrites: right after a slow is applied to a zombie, however
\* often it was slowed before, its multiplier is the slow configured for the
\* projectile and its timer the full duration; the multiplier of a zombie is
\* above 0 and at most 1 while its slow timer runs and 1 otherwise
C12_SlowOverwrites ==
    \A i \in 1..Len(zombies) :
        LET z == zobj[zombies[i]]
            h == exits[zombies[i]]
        IN  /\ (h.slow_hits > 0 /\ h.slow_age = 0) =>
                  /\ z.slow_factor = h.slow_cfg
                  /\ z.slow_timer = TOWER_TYPES[4].slow_duration
            /\ z.slow_timer > 0 => (0 < z.slow_factor /\ z.slow_factor <= 100)
            /\ z.slow_timer <= 0 => z.slow_factor = 100

\* zombie z is within the splash radius of the resolved projectile shot
InSplash(shot, z) ==
    Dist2(z.position, shot.position)
        <= (shot.splash_radius * SubPixel) * (shot.splash_radius * SubPixel)

\* C13: a splash projectile that resolves on its target, a zombie of the
\* active set, is at the target's position and takes its damage off the
\* target's health once; every other active zombie within the splash radius
\* of that point loses the damage too, and no zombie farther away loses any
C13_SplashDamage ==
    \A k \in 1..Len(log.splashes) :
        LET s == log.splashes[k]
        IN  \A i \in 1..Len(s.before) :
               (s.before[i].id = s.shot.target /\ s.before[i].active) =>
                  /\ s.shot.position = s.before[i].position
                  /\ s.after[i].health = s.before[i].health - s.shot.damage
                  /\ \A j \in 1..Len(s.before) :
                        /\ (j # i /\ s.before[j].active /\ InSplash(s.shot, s.before[j])) =>
                              s.after[j].health = s.before[j].health - s.shot.damage
                        /\ ~InSplash(s.shot, s.before[j]) =>
                              s.after[j].health = s.before[j].health

C13_NearHitFarSpared ==
    \E k \in 1..Len(log.splashes) :
        LET s == log.splashes[k]
        IN  \E i, near, far \in 1..Len(s.before) :
               /\ s.before[i].id = s.shot.target /\ s.before[i].active
               /\ near # i /\ s.before[near].active /\ InSplash(s.shot, s.before[near])
               /\ s.after[near].health < s.before[near].health
               /\ s.before[far].active /\ ~InSplash(s.shot, s.before[far])
               /\ s.after[far].health = s.before[far].health

\* the whole-pixel points of the path segment from a to b
SegmentPoints(a, b) ==
    (Min(a[1], b[1])..Max(a[1], b[1])) \X (Min(a[2], b[2])..Max(a[2], b[2]))

\* the whole-pixel points of the path
PathPoints == UNION {SegmentPoints(PathPx[i], PathPx[i + 1]) : i \in 1..(Len(PathPx) - 1)}

\* the centres of the grid cells, the positions handle_game_click snaps to
Cells ==
    { <<GRID_SIZE * i + GRID_SIZE \div 2, GRID_SIZE * j + GRID_SIZE \div 2>> :
          i \in 0..(WIDTH \div GRID_SIZE), j \in 0..(HEIGHT \div GRID_SIZE) }

\* the cell centres at least 40 pixels from every point of the path
ClearCells == {c \in Cells : \A q \in PathPoints : Dist2(c, q) >= 40 * 40}

\* p is at least 40 pixels from every point of the path (for a cell centre
\* the answer is looked up in ClearCells)
Clear(p) ==
    IF p \in Cells THEN p \in ClearCells
    ELSE \A q \in PathPoints : Dist2(p, q) >= 40 * 40

PlacementAsked ==
    /\ log.event.op = "click"
    /\ log.event.pos[2] <= PLAY_AREA.bottom
    /\ log.event.selected # NoSel
    /\ log.event.selected < Len(TOWER_TYPES)

\* the placement asked for was invalid: the cell is out of the play area, on
\* the path or too close to a tower, or the coins do not cover the cost
PlacementInvalid ==
    \/ ~can_place([towers |-> log.event.towers], Snap(log.event.pos))
    \/ log.event.coins < TOWER_TYPES[log.event.selected + 1].cost

\* C15: an invalid placement raises no exception and leaves the towers, the
\* coins, the selection and the rest of the session as they were
C15_InvalidPlacementRejected ==
    (PlacementAsked /\ PlacementInvalid) =>
        /\ ~log.event.raised
        /\ log.event.towers_after = log.event.towers
        /\ log.event.coins_after = log.event.coins
        /\ log.event.selected_after = log.event.selected
        /\ ~log.event.other

\* the last event was the upgrade key
UpgradeAsked == log.event.op = "key" /\ log.event.key = "K_u"

\* the selection held the index of a placed tower when the key was pressed
PlacedSelected ==
    log.event.selected # NoSel /\ log.event.selected < Len(log.event.towers)

\* C16: an upgrade asked for while the selection holds no placed tower, or
\* while the coins do not cover the upgrade cost, raises no exception and
\* leaves the towers (their levels) and the coins as they were
C16_BadUpgradeRejected ==
    (/\ UpgradeAsked
     /\ IF PlacedSelected
        THEN log.event.coins < upgrade_cost(log.event.towers[log.event.selected + 1])
        ELSE TRUE) =>
        /\ ~log.event.raised
        /\ log.event.towers_after = log.event.towers
        /\ log.event.coins_after = log.event.coins

\* the last call was a load_high_score() right after save_high_score(N) on a
\* file that held the saved high score P
AfterSave(n, p) ==
    /\ log.io.op = "load"
    /\ log.io.saved # << >>
    /\ log.io.saved[1].arg = n
    /\ log.io.saved[1].file = Saved(p)

C18_LoadNeverFails ==
    (log.io.op = "load" /\ log.io.file \in {NoFile} \cup Corrupt) =>
        (~log.io.raised /\ log.io.value = 0 /\ ~crashed)

\* the state the session is in, and the one it was in before the last step
Now == Phase(Cur)
Before == log.came_from

\* the moves of menu -> playing -> {paused <-> playing} -> {won | lost} -> menu
Stated ==
    { <<"init", "menu">>, <<"menu", "playing">>,
      <<"playing", "paused">>, <<"paused", "playing">>,
      <<"playing", "won">>, <<"playing", "lost">>,
      <<"paused", "won">>, <<"paused", "lost">>,
      <<"won", "menu">>, <<"lost", "menu">> }

\* the moves the code makes besides: Retry after a loss, Escape during the
\* game, the settings screen
Besides ==
    { <<"lost", "playing">>, <<"playing", "menu">>, <<"paused", "menu">>,
      <<"menu", "settings">>, <<"settings", "menu">> }

\* C19 as stated: from one step of the main loop to the next the session
\* stays in its state or makes one of the stated moves; so lost is left only
\* for menu, and playing is entered only from menu or from paused
C19_StatedMovesOnly ==
    Before # Now => <<Before, Now>> \in Stated

\* C19: from one step of the main loop to the next the session stays in its
\* state or makes one of the stated moves, or goes from lost to playing
\* (Retry), from playing or paused to menu (Escape), or between menu and
\* settings; so lost is left only for menu or playing, and playing is entered
\* only from menu, from lost or from paused
C19_MovesOfTheSession ==
    /\ Before # Now => <<Before, Now>> \in Stated \cup Besides
    /\ Before = "lost" => Now \in {"lost", "menu", "playing"}
    /\ (Now = "playing" /\ Before # "playing") => Before \in {"menu", "lost", "paused"}

\* a lost game was retried: the session went from lost to playing
C19_RetriedAfterLoss == Before = "lost" /\ Now = "playing" /\ lives > 0

\* the session as the handler of the next frame's event leaves it, as far as
\* the tick can tell: the coins and the towers after the handler, the wave
\* that SPACE started
Handed ==
    LET e == log'.event
        h == IF e.op = "key" /\ e.key = "K_SPACE" /\ ~wave_in_progress
             THEN start_wave(Cur) ELSE Cur
    IN  [h EXCEPT !.coins = IF e.op = "none" THEN coins ELSE e.coins_after,
                  !.towers = IF e.op = "none" THEN towers ELSE e.towers_after]

\* C21: the tick of a frame in which the session is paused changes nothing:
\* the zombies (positions, health, slow timers), the projectiles, the towers
\* (cooldowns), the spawn timer and queue, the coins, the lives and the score
\* are what the event handler of the frame left; and P pressed while paused
\* switches the pause off, so that the tick of that frame runs
C21_PausedTickFreezes ==
    [][ /\ (InGame /\ pause' /\ ~crashed') =>
              /\ ~log'.ticked
              /\ zombies' = zombies /\ zobj' = zobj /\ projectiles' = projectiles
              /\ lives' = lives /\ score' = score
              /\ coins' = Handed.coins /\ towers' = Handed.towers
              /\ spawn_timer' = Handed.spawn_timer
              /\ spawn_queue' = Handed.spawn_queue
              /\ wave' = Handed.wave
        /\ (InGame /\ pause /\ log'.event.op = "key" /\ log'.event.key = "K_p") =>
              (~pause' /\ log'.ticked) ]_vars

\* a paused frame of a paused game, with a wave in progress, zombies on the
\* path and a projectile in flight
C21_PausedMidWave ==
    /\ state = "game" /\ pause /\ log.came_from = "paused" /\ ~log.ticked
    /\ wave_in_progress /\ zombies # << >> /\ projectiles # << >>

\* the bosses spawned so far
BossesSpawned == Cardinality({id \in 1..Len(exits) : exits[id].type = "boss"})

\* the bosses a wave of this number is to have
BossesDue(w) == IF w % 5 = 0 THEN 1 ELSE 0

\* C22: the spawn sequence of a wave (the zombies spawned and the entries
\* still queued) holds one boss when the wave number is a multiple of 5 and
\* none otherwise, wherever the shuffle put it; when the wave is complete
\* the boss has been spawned
C22_OneBossEveryFifthWave ==
    /\ wave_in_progress =>
          BossesSpawned + spawn_queue["boss"] = BossesDue(wave)
    /\ (~wave_in_progress /\ exits # << >>) =>
          (BossesSpawned = BossesDue(wave) /\ spawn_queue["boss"] = 0)

\* wave 5 is complete and its boss came neither first nor last
C22_BossMidWave ==
    /\ wave = 5 /\ ~wave_in_progress /\ BossesSpawned = 1
    /\ \E id \in 2..(Len(exits) - 1) : exits[id].type = "boss"

\* C23: within a game session the score never decreases: every frame of the
\* game, with its input event and its tick, leaves the score equal or larger
C23_ScoreNeverDecreases ==
    [][ InGame => score' >= score ]_vars

\* a tick added to a score that earlier kills had already raised
C23_ScoredAgain == state = "game" /\ log.scored > 0 /\ score > log.scored

\* the session holds the initial values of a game
Fresh ==
    /\ coins = 180 /\ lives = 20 /\ score = 0 /\ wave = 0
    /\ ~wave_in_progress /\ ~pause /\ selected_tower = NoSel
    /\ towers = << >> /\ zombies = << >> /\ projectiles = << >>
    /\ QueueLen(spawn_queue) = 0 /\ spawn_timer = 0

\* C24: a game entered from the menu (Start Game) or from the lost state
\* (Retry) begins with the initial coins, lives, score, wave number, wave
\* flag, pause flag and selection and with no towers, zombies, projectiles
\* or queued spawns, whatever the session before left
C24_NewGameIsFresh ==
    (Now = "playing" /\ Before \in {"menu", "lost"}) => Fresh

\* a game started from the menu after an earlier game of this run had frames
C24_StartedAgain ==
    Now = "playing" /\ Before = "menu" /\ ticks > 0 /\ Fresh

\* the zombie spawned by the step, if the step spawned one
Born == zobj'[nextId]

\* C25: a tick of a wave in progress spawns at most one zombie, and only
\* when the countdown less the frame time is <= 0 and the queue is not
\* empty; the zombie is appended to the active ones, stands on the first
\* waypoint with the full health of its category, the queue has lost one
\* entry of that category and the countdown is the delay of that entry; a
\* tick that spawns nothing leaves the queue and the active zombies alone
C25_OneSpawnPerTick ==
    [][ (wave_in_progress /\ log'.ticked) =>
          /\ nextId' \in {nextId, nextId + 1}
          /\ nextId' = nextId + 1 =>
                /\ spawn_timer - log'.dt <= 0 /\ QueueLen(spawn_queue) > 0
                /\ zombies' = Append(zombies, nextId)
                /\ Born.position = path[1] /\ Born.path_index = 0
                /\ Born.health = ZOMBIE_TYPES[Born.type].health
                /\ Born.health = Born.max_health
                /\ spawn_queue[Born.type] > 0
                /\ spawn_queue' = [spawn_queue EXCEPT ![Born.type] = @ - 1]
                /\ spawn_timer' = SpawnDelay[Born.type]
          /\ nextId' = nextId =>
                (spawn_queue' = spawn_queue /\ zombies' = zombies) ]_vars

\* a tick has just spawned a brute behind other zombies, and entries are
\* still queued
C25_BruteSpawned ==
    /\ log.ticked /\ Len(zombies) >= 2 /\ QueueLen(spawn_queue) > 0
    /\ zobj[zombies[Len(zombies)]].type = "brute"
    /\ zobj[zombies[Len(zombies)]].position = path[1]
    /\ spawn_timer = SpawnDelay["brute"]

\* the floor zombie.py keeps under its interval between shots: 10 frames of
\* the 60 a second (ms)
FloorMs == (10 * 1000) \div 60

\* C26: at every level a tower reaches by upgrades the interval between its
\* shots, the cooldown set on firing, is at least the floor
C26_IntervalAboveFloor ==
    \A i \in 1..Len(towers) : FireInterval(stats(towers[i]).rate) >= FloorMs

\* tower i was upgraded by this step
Upgraded(i) == towers'[i].level # towers[i].level

\* C27: an upgrade raises the level of the tower by exactly 1 and takes from
\* the coins exactly the upgrade cost of the tower as it was; the upgrade cost
\* of the upgraded tower is higher, and its damage, rate and range are not
\* lower
C27_UpgradeByOneAtQuotedCost ==
    [][ \A i \in 1..Len(towers) :
            Upgraded(i) =>
                /\ towers'[i].level = towers[i].level + 1
                /\ coins >= upgrade_cost(towers[i])
                /\ coins' = coins - upgrade_cost(towers[i])
                /\ upgrade_cost(towers'[i]) > upgrade_cost(towers[i])
                /\ stats(towers'[i]).dmg >= stats(towers[i]).dmg
                /\ stats(towers'[i]).rate >= stats(towers[i]).rate
                /\ stats(towers'[i]).rng >= stats(towers[i]).rng ]_vars

\* a Sniper was upgraded from level 2 to level 3 and paid for
C27_UpgradedTwice ==
    /\ log.event.op = "key"
    /\ log.event.key = "K_u"
    /\ \E i \in 1..Len(towers) :
           /\ towers[i].tower_type = 1
           /\ towers[i].level = 3
           /\ log.event.towers[i].level = 2
           /\ coins = log.event.coins - upgrade_cost(log.event.towers[i])

\* the last input was a click on the placed tower i, the first within 20 px
PickedTower(i) ==
    /\ log.event.op = "click"
    /\ TowerAt([towers |-> log.event.towers], log.event.pos, 0) = i - 1

\* the input of this step is the key U
UpgradeRequested ==
    /\ log'.event.op = "key"
    /\ log'.event.key = "K_u"

\* C28: when the player clicks on a placed tower and then presses U with
\* coins for its upgrade, the level of that tower rises by one and the level
\* of no other tower changes
C28_PickedTowerUpgraded ==
    [][ \A i \in 1..Len(towers) :
            (PickedTower(i) /\ UpgradeRequested
                 /\ coins >= upgrade_cost(towers[i])) =>
                \A j \in 1..Len(towers) :
                    towers'[j].level =
                        towers[j].level + (IF j = i THEN 1 ELSE 0) ]_vars

\* the index of the last waypoint of the path of zombie z
LastIndex(z) == Len(z.path) - 1

\* zombie z stands on its next waypoint: the segment ahead has length zero
OnNextWaypoint(z) ==
    /\ z.path_index < LastIndex(z)
    /\ z.position = z.path[z.path_index + 2]

\* C29: the waypoint index of a zombie never decreases and never exceeds the
\* index of the last waypoint; Zombie.update reports the end only for a zombie
\* that had reached the last waypoint before the call; and on a segment of
\* length zero the call adds one to the index, leaves the position and raises
\* nothing
C29_IndexAlongPath ==
    [][ LET z == zobj[1]
            y == zobj'[1]
        IN  /\ y.path_index >= z.path_index
            /\ y.path_index <= LastIndex(z)
            /\ ~crashed'
            /\ log'.escapes > 0 =>
                   /\ z.path_index = LastIndex(z)
                   /\ z.position = z.path[LastIndex(z) + 1]
            /\ (log'.ticked /\ OnNextWaypoint(z)) =>
                   /\ y.path_index = z.path_index + 1
                   /\ y.position = z.position
                   /\ log'.escapes = 0 ]_vars

\* a zombie escaped at the end of a path of five waypoints of which the
\* second, the third and the fourth are equal
C29_EscapedOverRepeats ==
    /\ exits # << >>
    /\ exits[1].escaped = 1
    /\ Len(zobj[1].path) = 5
    /\ zobj[1].path[2] = zobj[1].path[4]
    /\ zobj[1].path_index = 4
    /\ zombies = << >>

\* the projectiles the towers appended in this tick are where they were made,
\* on a tower that fired
ShotsNotAdvanced ==
    \A k \in (log.in_flight + 1)..Len(projectiles) :
        \E i \in 1..Len(towers) :
            /\ log.towers[i].fired
            /\ projectiles[k].position = ToUnits(towers[i].position)

\* no zombie stands on the first waypoint: the zombie spawned in this tick
\* was moved in it
SpawnedAdvanced ==
    \A i \in 1..Len(zombies) : zobj[zombies[i]].position # path[1]

\* the parts of the tick in the stated order: the test of the lives comes
\* last
StatedOrder == << "wave", "zombies", "projectiles", "towers", "removal", "check" >>

\* C30: every unpaused tick runs the wave director, the advance of the
\* zombies with the escapes, the projectiles with their hits, the towers, the
\* removal of the zombies with health <= 0 and the termination check in this
\* order; a projectile fired in the tick is not advanced in it, and a zombie
\* spawned in the tick is
C30_PhasesInStatedOrder ==
    log.ticked =>
        /\ log.order = StatedOrder
        /\ ShotsNotAdvanced
        /\ SpawnedAdvanced

\* what of C30 the code does: the order of its own, with the test of the
\* lives inside the loop over the zombies, once per escape
C30_OrderOfTheCode ==
    log.ticked =>
        /\ log.order = << "wave", "zombies" >>
                           \o [k \in 1..log.escapes |-> "check"]
                           \o << "projectiles", "removal", "towers" >>
        /\ ShotsNotAdvanced
        /\ SpawnedAdvanced

\* C31: whenever the session is lost, the high score kept by the game is at
\* least the score of the session
C31_HighScoreCoversFinalScore ==
    (running /\ ~crashed /\ state = "gameover") => high_score >= score

\* no wave is in progress, nothing is queued and no zombie is active
BetweenWaves ==
    /\ ~wave_in_progress
    /\ QueueLen(spawn_queue) = 0
    /\ zombies = << >>

\* the input of this step is the key SPACE, in a game
SpacePressed ==
    /\ state = "game"
    /\ log'.event.op = "key"
    /\ log'.event.key = "K_SPACE"

\* C32: while no wave is in progress the spawn queue and the list of zombies
\* are empty; the wave number rises only by 1, only by the key SPACE and only
\* from such a state, paused or not; SPACE during a wave leaves the wave
\* number and adds nothing to the queue; and a lost session takes no wave
C32_WaveStartsBetweenWaves ==
    [][ /\ ~wave_in_progress => BetweenWaves
        /\ ~wave_in_progress' => BetweenWaves'
        /\ wave' > wave => (BetweenWaves /\ SpacePressed /\ wave' = wave + 1)
        /\ (SpacePressed /\ ~crashed') =>
               IF wave_in_progress
               THEN wave' = wave /\ QueueLen(spawn_queue') <= QueueLen(spawn_queue)
               ELSE wave' = wave + 1 /\ wave_in_progress'
        /\ state = "gameover" => wave' <= wave ]_vars

\* the second wave was started by SPACE during a pause
C32_StartedWhilePaused ==
    /\ state = "game"
    /\ pause
    /\ wave = 2
    /\ wave_in_progress
    /\ log.event.op = "key"
    /\ log.event.key = "K_SPACE"

\* SPACE was pressed during the second wave
C32_SpaceDuringWave ==
    /\ state = "game"
    /\ wave = 2
    /\ wave_in_progress
    /\ zombies # << >>
    /\ log.event.op = "key"
    /\ log.event.key = "K_SPACE"

\* the coins the input handler of this step took or gave
Handling ==
    IF log'.event.op = "none" THEN 0
    ELSE log'.event.coins_after - log'.event.coins

\* the coins this step added besides the input handler and the rewards for
\* the zombies killed
Bonus == coins' - coins - Handling - log'.rewarded

\* the wave in progress ends with this tick
Completes == wave_in_progress /\ ~wave_in_progress'

\* C33: a tick adds the wave bonus, 30 + 5 * wave coins, when it ends the
\* wave in progress, with nothing queued and no zombie active, and no tick
\* adds it otherwise: not between waves, not again for the same wave, and
\* not in the tick in which the session is lost, which leaves the wave in
\* progress
C33_BonusOncePerWave ==
    [][ log'.ticked =>
            /\ Bonus = IF Completes THEN 30 + 5 * wave ELSE 0
            /\ Completes =>
                   /\ wave' = wave
                   /\ QueueLen(spawn_queue) = 0
                   /\ zombies = << >>
                   /\ BetweenWaves'
            /\ (state' = "gameover" /\ wave_in_progress) =>
                   wave_in_progress' ]_vars

\* the first wave ended with all its zombies escaped and its bonus of 35
\* coins was added to the 180 of a new game
C33_FirstWavePaid ==
    /\ state = "game"
    /\ log.ticked
    /\ log.completed
    /\ wave = 1
    /\ ~wave_in_progress
    /\ towers = << >>
    /\ coins = 180 + 35

\* C34: with unpaused ticks occurring again and again, every wave in progress
\* ends: it completes or the session is lost
C34_WaveEnds ==
    wave_in_progress ~> (~wave_in_progress \/ state = "gameover")

\* the first wave completed although a zombie that escaped had been slowed
\* more than once on its way
C34_EndedThoughSlowed ==
    /\ state = "game"
    /\ wave = 1
    /\ ~wave_in_progress
    /\ log.completed
    /\ \E i \in 1..Len(exits) : exits[i].slow_hits >= 2 /\ exits[i].escaped = 1

\* the first wave ended in a loss, with no tower standing
C34_LostWithoutTowers ==
    /\ state = "gameover"
    /\ wave = 1
    /\ wave_in_progress
    /\ towers = << >>

====
